---- MODULE Spec2Model ----
(***************************************************************************)
(* Fetch planning of radicle-link (librad/src/git/fetch.rs).               *)
(*                                                                         *)
(* A caller builds a Fetchspecs value (Peek, SignedRefs or Replicate) and  *)
(* asks it for the refspecs to fetch for a Urn from a contacted peer.      *)
(* Reference paths are sequences of path segments; a rendered refspec is   *)
(* the sequence  ["+"] remote-segments ":" local-segments.                 *)
(***************************************************************************)
EXTENDS Integers, Sequences, FiniteSets, TLC

VARIABLES
    fetchspecs,   \* the Fetchspecs value the caller holds
    urn,          \* the Urn of the planning call
    remote_peer,  \* the contacted peer of the planning call
    result,       \* the Vec of refspecs the call returned
    pc,           \* "new" | "built" | "planned"
    \* DefaultFetcher (librad/src/git/fetch.rs)
    connected,    \* self.remote.connected()
    advertised,   \* the refs the remote advertises: name -> [symref, oid]
    fetch_arg,    \* the Fetchspecs argument of the running fetch
    listed_heads, \* the local remote_heads of the running fetch
    download_arg, \* the refspec texts handed to self.remote.download
    calls,        \* the calls made on self.remote by the running fetch
    ret,          \* what fetch returned
    fetch_pc,     \* "idle" | "connect" | "list" | "download" | "update_tips" | "returned"
    \* Data (link-hooks/src/data.rs)
    data,         \* a Data value
    outcome,      \* what data.updated() returned
    text,         \* a String: the Display rendering of data, or an input
    parsed,       \* what text.parse::<Data<R>>() returned
    hook_pc       \* "idle" | "data" | "text" | "parsed"

planVars == <<fetchspecs, urn, remote_peer, result, pc>>
fetcherVars == <<connected, advertised, fetch_arg, listed_heads, download_arg,
                 calls, ret, fetch_pc>>
hookVars == <<data, outcome, text, parsed, hook_pc>>
vars == <<planVars, fetcherVars, hookVars>>

(***************************************************************************)
(* Bounds of the model.                                                    *)
(***************************************************************************)
MaxHeads == 1     \* entries of a generated remote listing
MaxSigned == 1    \* signed heads of one tracked peer
MaxComponents == 4  \* space-separated components of an input text

(***************************************************************************)
(* The universe: the peers, urns, branches and oids of the test fixtures.  *)
(***************************************************************************)
None == "none"

PeerOrder == <<"bolek", "lolek", "tola">>
Peers == {PeerOrder[i] : i \in 1..Len(PeerOrder)}

UrnOrder == <<1, 2, 32>>
Urns == {UrnOrder[i] : i \in 1..Len(UrnOrder)}
PROJECT_URN == 32
LOLEK_URN == 1
BOLEK_URN == 2

BranchOrder == <<"mister", "next">>
Branches == {BranchOrder[i] : i \in 1..Len(BranchOrder)}

ZERO == 0
Oids == {ZERO, 1}

(***************************************************************************)
(* Ordered iteration of BTreeSet / BTreeMap: ascending by key.             *)
(***************************************************************************)
SortedPeers(S) ==
    LET In(p) == p \in S IN SelectSeq(PeerOrder, In)

SortedUrns(S) ==
    LET In(u) == u \in S IN SelectSeq(UrnOrder, In)

SortedBranches(S) ==
    LET In(b) == b \in S IN SelectSeq(BranchOrder, In)

RECURSIVE Flatten(_)
Flatten(seqs) ==
    IF seqs = <<>> THEN <<>> ELSE Head(seqs) \o Flatten(Tail(seqs))

(***************************************************************************)
(* Path algebra and references.                                            *)
(***************************************************************************)
\* a Urn joined into a path: one segment, the rendering of its id
UrnSegment(u) == ToString(u)

\* Namespace::from(urn): the namespace is the urn's id
Namespace(u) == u

\* reflike!("refs/namespaces").join(&namespace)
NamespacePrefix(ns) == <<"refs", "namespaces", UrnSegment(ns)>>

\* ext::Qualified::from(name) for a OneLevel branch name: refs/heads/<name>
Qualified(name) == <<"refs", "heads", name>>

Reference(ns, remote, category, name) ==
    [namespace |-> ns, remote |-> remote, category |-> category, name |-> name]

rad_id(ns) == Reference(ns, None, "rad", <<"id">>)
rad_self(ns, remote) == Reference(ns, remote, "rad", <<"self">>)
rad_ids_glob(ns) == Reference(ns, None, "rad", <<"ids", "*">>)
rad_signed_refs(ns, remote) == Reference(ns, remote, "rad", <<"signed_refs">>)
head(ns, remote, name) == Reference(ns, remote, "heads", <<name>>)

set_remote(ref, remote) == [ref EXCEPT !.remote = remote]

\* mutant: the category of a scoped reference is qualified with refs/
RenderReference_qualified_scope(ref) ==
    NamespacePrefix(ref.namespace)
        \o <<"refs">>
        \o (IF ref.remote = None THEN <<>> ELSE <<"remotes", ref.remote, "refs">>)
        \o <<ref.category>>
        \o ref.name

\* the path text of a reference, as the refspec tests spell it
RenderReference(ref) ==
    NamespacePrefix(ref.namespace)
        \o <<"refs">>
        \o (IF ref.remote = None THEN <<>> ELSE <<"remotes", ref.remote>>)
        \o <<ref.category>>
        \o ref.name

\* local.refspec(remote, force)
refspec(local, remote, force) ==
    [local |-> local, remote |-> remote, force |-> force]

\* mutant: the force flag is not rendered
as_refspec_no_plus(spec) ==
    RenderReference(spec.remote) \o <<":">> \o RenderReference(spec.local)

\* AsRefspec::as_refspec: "[+]<remote>:<local>"
as_refspec(spec) ==
    (IF spec.force THEN <<"+">> ELSE <<>>)
        \o RenderReference(spec.remote)
        \o <<":">>
        \o RenderReference(spec.local)

(***************************************************************************)
(* The three planning strategies (mod refspecs).                           *)
(***************************************************************************)
\* mutant: the self-profile refspec is not scoped to the contacted peer
peek_self_unscoped(u, peer) ==
    LET namespace == Namespace(u)
        id   == rad_id(namespace)
        self == rad_self(namespace, None)
        ids  == rad_ids_glob(namespace)
    IN  << refspec(set_remote(id, peer), id, FALSE),
           refspec(self, self, FALSE),
           refspec(set_remote(ids, peer), ids, FALSE) >>

peek(u, peer) ==
    LET namespace == Namespace(u)
        id   == rad_id(namespace)
        self == rad_self(namespace, None)
        ids  == rad_ids_glob(namespace)
    IN  << refspec(set_remote(id, peer), id, FALSE),
           refspec(set_remote(self, peer), self, FALSE),
           refspec(set_remote(ids, peer), ids, FALSE) >>

\* mutant: the local side is scoped to the contacted peer
signed_refs_one_local_contacted(u, peer, tracked_peer) ==
    LET local  == rad_signed_refs(Namespace(u), peer)
        remote == IF tracked_peer = peer
                  THEN set_remote(local, None)
                  ELSE rad_signed_refs(Namespace(u), tracked_peer)
    IN  refspec(local, remote, FALSE)

\* mutant: the remote side is unscoped for every tracked peer
signed_refs_one_unscoped(u, peer, tracked_peer) ==
    LET local == rad_signed_refs(Namespace(u), tracked_peer)
    IN  refspec(local, set_remote(local, None), FALSE)

signed_refs_one(u, peer, tracked_peer) ==
    LET local  == rad_signed_refs(Namespace(u), tracked_peer)
        remote == IF tracked_peer = peer THEN set_remote(local, None) ELSE local
    IN  refspec(local, remote, FALSE)

signed_refs(u, peer, tracked) ==
    LET One(tracked_peer) == signed_refs_one(u, peer, tracked_peer)
        ts == SortedPeers(tracked)
    IN  [i \in 1..Len(ts) |-> One(ts[i])]

\* the path under which the contacted peer is expected to advertise the
\* branch `name` signed by `tracked_peer`
name_namespaced(u, peer, tracked_peer, name) ==
    IF tracked_peer = peer
    THEN NamespacePrefix(Namespace(u)) \o Qualified(name)
    ELSE NamespacePrefix(Namespace(u))
            \o <<"refs", "remotes">> \o <<tracked_peer>> \o Qualified(name)

\* mutant: the advertised path is looked up but its oid is not compared
targets_match_any_oid(remote_heads, path, target) ==
    path \in DOMAIN remote_heads

\* remote_heads.get(&name_namespaced).map(|t| t == target).unwrap_or(false)
targets_match(remote_heads, path, target) ==
    IF path \in DOMAIN remote_heads THEN remote_heads[path] = target ELSE FALSE

\* mutant: the two sides are swapped
head_refspec_swapped(u, peer, tracked_peer, name) ==
    LET local  == head(Namespace(u), tracked_peer, name)
        remote == IF tracked_peer = peer THEN set_remote(local, None) ELSE local
    IN  refspec(remote, local, TRUE)

\* mutant: the remote side is never unscoped
head_refspec_scoped_remote(u, peer, tracked_peer, name) ==
    LET local == head(Namespace(u), tracked_peer, name)
    IN  refspec(local, local, TRUE)

head_refspec(u, peer, tracked_peer, name) ==
    LET local  == head(Namespace(u), tracked_peer, name)
        remote == IF tracked_peer = peer THEN set_remote(local, None) ELSE local
    IN  refspec(local, remote, TRUE)

signed_heads_of(u, peer, remote_heads, tracked_peer, refs) ==
    LET Pass(name) ==
            targets_match(remote_heads,
                          name_namespaced(u, peer, tracked_peer, name),
                          refs.heads[name])
        Spec(name) == head_refspec(u, peer, tracked_peer, name)
        names == SelectSeq(SortedBranches(DOMAIN refs.heads), Pass)
    IN  [i \in 1..Len(names) |-> Spec(names[i])]

signed_heads(u, peer, remote_heads, tracked_sigrefs) ==
    LET Of(tracked_peer) ==
            signed_heads_of(u, peer, remote_heads, tracked_peer,
                            tracked_sigrefs[tracked_peer])
        ts == SortedPeers(DOMAIN tracked_sigrefs)
    IN  Flatten([i \in 1..Len(ts) |-> Of(ts[i])])

\* mutant: only the tracked peers that signed a head are asked for signed refs
delegate_refspecs_signers(peer, tracked_sigrefs, delegates) ==
    LET signers == { t \in DOMAIN tracked_sigrefs :
                        DOMAIN tracked_sigrefs[t].heads # {} }
        Of(delegate_urn) ==
            peek(delegate_urn, peer) \o signed_refs(delegate_urn, peer, signers)
        ds == SortedUrns(delegates)
    IN  Flatten([i \in 1..Len(ds) |-> Of(ds[i])])

delegate_refspecs(peer, tracked_sigrefs, delegates) ==
    LET Of(delegate_urn) ==
            peek(delegate_urn, peer)
                \o signed_refs(delegate_urn, peer, DOMAIN tracked_sigrefs)
        ds == SortedUrns(delegates)
    IN  Flatten([i \in 1..Len(ds) |-> Of(ds[i])])

\* mutant: the peek at the contacted peer comes first
replicate_peek_first(u, peer, remote_heads, tracked_sigrefs, delegates) ==
    peek(u, peer)
        \o signed_heads(u, peer, remote_heads, tracked_sigrefs)
        \o delegate_refspecs(peer, tracked_sigrefs, delegates)

\* mutant: a signed head that is not advertised with its oid fails the plan
replicate_fail_on_miss(u, peer, remote_heads, tracked_sigrefs, delegates) ==
    IF \E t \in DOMAIN tracked_sigrefs : \E b \in DOMAIN tracked_sigrefs[t].heads :
          ~ targets_match(remote_heads, name_namespaced(u, peer, t, b),
                          tracked_sigrefs[t].heads[b])
    THEN <<>>
    ELSE signed_heads(u, peer, remote_heads, tracked_sigrefs)
            \o peek(u, peer)
            \o delegate_refspecs(peer, tracked_sigrefs, delegates)

replicate(u, peer, remote_heads, tracked_sigrefs, delegates) ==
    signed_heads(u, peer, remote_heads, tracked_sigrefs)
        \o peek(u, peer)
        \o delegate_refspecs(peer, tracked_sigrefs, delegates)

\* Fetchspecs::refspecs
refspecs(fs, u, peer) ==
    CASE fs.tag = "Peek" -> peek(u, peer)
      [] fs.tag = "SignedRefs" -> signed_refs(u, peer, fs.tracked)
      [] fs.tag = "Replicate" ->
            replicate(u, peer, fs.remote_heads, fs.tracked_sigrefs, fs.delegates)

(***************************************************************************)
(* Fetchspecs values.                                                      *)
(***************************************************************************)
NoFetchspecs == [tag |-> "None"]
Peek == [tag |-> "Peek"]
SignedRefs(tracked) == [tag |-> "SignedRefs", tracked |-> tracked]
Replicate(remote_heads, tracked_sigrefs, delegates) ==
    [tag |-> "Replicate", remote_heads |-> remote_heads,
     tracked_sigrefs |-> tracked_sigrefs, delegates |-> delegates]

Refs(heads) == [heads |-> heads, remotes |-> {}]

(***************************************************************************)
(* The fixture of tests::replicate_looks_legit.                            *)
(***************************************************************************)
FixtureDelegates == {LOLEK_URN, BOLEK_URN}

FixtureSigrefs ==
    [p \in {"lolek", "bolek"} |->
        IF p = "lolek"
        THEN Refs([b \in {"mister"} |-> ZERO])
        ELSE Refs([b \in {"mister", "next"} |-> ZERO])]

FixtureRemoteHeads ==
    LET P == NamespacePrefix(PROJECT_URN)
        paths ==
          { P \o <<"refs", "heads", "mister">>,
            P \o <<"refs", "rad", "id">>,
            P \o <<"refs", "rad", "ids">> \o <<UrnSegment(LOLEK_URN)>>,
            P \o <<"refs", "rad", "ids">> \o <<UrnSegment(BOLEK_URN)>>,
            P \o <<"refs", "remotes", "lolek", "refs", "heads", "mister">>,
            P \o <<"refs", "remotes", "bolek", "refs", "heads", "mister">>,
            P \o <<"refs", "remotes", "bolek", "refs", "heads", "next">>,
            NamespacePrefix(LOLEK_URN) \o <<"refs", "rad", "id">>,
            NamespacePrefix(BOLEK_URN) \o <<"refs", "rad", "id">> }
    IN  [p \in paths |-> ZERO]

(***************************************************************************)
(* The inputs the callers draw from.                                       *)
(***************************************************************************)
\* peers whose signed refs a generated Replicate holds
SigrefPeers == {"bolek", "lolek"}

\* urns a planning call is made for
CallUrns == {PROJECT_URN, LOLEK_URN}

\* paths a generated listing advertises, all in the project's namespace:
\* owned heads, tracking heads in the layout the trust gate looks up, and
\* tracking heads in the layout of the rendered refspecs
CandidatePaths ==
    LET P == NamespacePrefix(PROJECT_URN)
    IN  { P \o Qualified(b) : b \in Branches }
        \cup { P \o <<"refs", "remotes", t>> \o Qualified(b)
                 : t \in SigrefPeers, b \in Branches }
        \cup { P \o <<"refs", "remotes", t, "heads", b>>
                 : t \in SigrefPeers, b \in Branches }

AtMost(S, n) == { T \in SUBSET S : Cardinality(T) <= n }

RemoteHeadsChoices ==
    UNION { [S -> Oids] : S \in AtMost(CandidatePaths, MaxHeads) }

\* signed heads as a set of (peer, branch) pairs with their oids
SignedPairs(T) == T \X Branches

SigrefsOf(T, signed) ==
    [t \in T |->
        Refs([b \in {q[2] : q \in {r \in DOMAIN signed : r[1] = t}}
                |-> signed[<<t, b>>]])]

SigrefsChoices ==
    UNION { UNION { { SigrefsOf(T, signed) : signed \in [S -> Oids] }
                    : S \in AtMost(SignedPairs(T), MaxSigned) }
            : T \in SUBSET SigrefPeers }

\* the Replicate values the callers build: any listing and signed refs with
\* no delegates, any delegate set and signed refs with an empty listing, and
\* one delegate with one advertised ref
ReplicateChoice(rh, ds) ==
    \/ ds = {}
    \/ DOMAIN rh = {}
    \/ Cardinality(ds) = 1 /\ Cardinality(DOMAIN rh) = 1

(***************************************************************************)
(* DefaultFetcher::fetch.  A name the remote advertises is the sequence of *)
(* its "/"-separated segments.                                             *)
(***************************************************************************)
NoReturn == [tag |-> "None"]
Ok(v) == [tag |-> "Ok", value |-> v]
Err(step) == [tag |-> "Err", step |-> step]

FetchResult(heads, tips) == [remote_heads |-> heads, updated_tips |-> tips]

\* RefLike::try_from(name) is Ok: a non-empty path without empty segments,
\* ".." segments or control characters
IsRefLike(name) ==
    /\ Len(name) > 0
    /\ \A i \in 1..Len(name) : name[i] \notin {"", "..", "\t"}

\* mutant: symbolic refs are kept
collect_remote_heads_with_symrefs(adv) ==
    [n \in {m \in DOMAIN adv : IsRefLike(m)} |-> adv[n].oid]

\* self.remote.list()?.iter().filter_map(..).collect()
collect_remote_heads(adv) ==
    [n \in {m \in DOMAIN adv : ~adv[m].symref /\ IsRefLike(m)} |-> adv[n].oid]

\* the update_tips callback over the tips the transport reports
collect_updated_tips(upd) ==
    [n \in {m \in DOMAIN upd : IsRefLike(m)} |-> upd[n]]

\* refspecs.into_iter().map(|spec| spec.as_refspec()).collect()
download_refspecs(fs, u, p) ==
    LET rs == refspecs(fs, u, p)
    IN  [i \in 1..Len(rs) |-> as_refspec(rs[i])]

\* the names a remote advertises or reports as updated
AdvertisedNames ==
    { <<"HEAD">>,
      <<"refs", "heads", "mister">>,
      <<"refs", "heads", "..">>,
      <<"refs", "", "mister">> }

RemoteHead == [symref : BOOLEAN, oid : Oids]
AdvertisedChoices == UNION { [S -> RemoteHead] : S \in SUBSET AdvertisedNames }
UpdatedChoices == UNION { [S -> {1}] : S \in SUBSET AdvertisedNames }
FetchArgs == {Peek, SignedRefs({"lolek"})}

\* the fields of the fetcher (DefaultFetcher::new)
FetcherUrn == PROJECT_URN
FetcherPeer == "tola"

(***************************************************************************)
(* link-hooks Data<R>.  A String is the sequence of its characters; the    *)
(* text of a urn and of a revision are those of their Display impls, made  *)
(* of characters other than space and line feed.                           *)
(***************************************************************************)
NoData == [tag |-> "None"]
Data(u, old, new) == [tag |-> "Data", urn |-> u, old |-> old, new |-> new]

RevOrder == <<"0", "1", "2">>
Revisions == {i - 1 : i \in 1..Len(RevOrder)}
is_zero(r) == r = ZERO

\* mutant: equality is tested before zero-ness
updated_equal_first(d) ==
    IF d.old = d.new THEN "NoChange"
    ELSE IF is_zero(d.old) THEN "Created"
    ELSE IF is_zero(d.new) THEN "Deleted"
    ELSE "Changed"

\* Data::updated
updated(d) ==
    CASE is_zero(d.old) /\ is_zero(d.new) -> "Zero"
      [] is_zero(d.old) /\ ~is_zero(d.new) -> "Created"
      [] ~is_zero(d.old) /\ is_zero(d.new) -> "Deleted"
      [] ~is_zero(d.old) /\ ~is_zero(d.new) /\ d.old # d.new -> "Changed"
      [] OTHER -> "NoChange"

\* Display and FromStr of R and of Urn<R>
RevText(r) == <<RevOrder[r + 1]>>
ParseRev(t) ==
    IF \E r \in Revisions : RevText(r) = t
    THEN Ok(CHOOSE r \in Revisions : RevText(r) = t)
    ELSE Err("Revision")

UrnText(u) == <<"rad:git:", UrnSegment(u)>>
ParseUrn(t) ==
    IF \E u \in Urns : UrnText(u) = t
    THEN Ok(CHOOSE u \in Urns : UrnText(u) = t)
    ELSE Err("Urn")

\* impl fmt::Display for Data
fmt(d) ==
    UrnText(d.urn) \o <<" ">> \o RevText(d.old) \o <<" ">> \o RevText(d.new)
        \o <<"\n">>

\* s.split(' ')
RECURSIVE split(_)
split(s) ==
    IF \A i \in 1..Len(s) : s[i] # " "
    THEN <<s>>
    ELSE LET k == CHOOSE i \in 1..Len(s) :
                    s[i] = " " /\ \A j \in 1..(i - 1) : s[j] # " "
         IN  <<SubSeq(s, 1, k - 1)>> \o split(SubSeq(s, k + 1, Len(s)))

\* new.strip_suffix('\n')
HasLineFeed(t) == Len(t) > 0 /\ t[Len(t)] = "\n"
strip_suffix(t) == SubSeq(t, 1, Len(t) - 1)

ParseError(variant, what) == [tag |-> "Err", variant |-> variant, what |-> what]
NoParse == [tag |-> "None"]

\* mutant: a fourth component is ignored
from_str_ignore_extra(s) ==
    LET c == split(s)
    IN  IF ParseUrn(c[1]).tag = "Err" THEN ParseError("Urn", c[1])
        ELSE IF Len(c) < 2 THEN ParseError("Missing", <<"<old>">>)
        ELSE IF ParseRev(c[2]).tag = "Err" THEN ParseError("Revision", c[2])
        ELSE IF Len(c) < 3 THEN ParseError("Missing", <<"<new> LF">>)
        ELSE IF ~HasLineFeed(c[3]) THEN ParseError("Newline", c[3])
        ELSE IF ParseRev(strip_suffix(c[3])).tag = "Err"
             THEN ParseError("Revision", strip_suffix(c[3]))
        ELSE Ok(Data(ParseUrn(c[1]).value, ParseRev(c[2]).value,
                     ParseRev(strip_suffix(c[3])).value))

\* impl FromStr for Data
from_str(s) ==
    LET c == split(s)
    IN  IF ParseUrn(c[1]).tag = "Err" THEN ParseError("Urn", c[1])
        ELSE IF Len(c) < 2 THEN ParseError("Missing", <<"<old>">>)
        ELSE IF ParseRev(c[2]).tag = "Err" THEN ParseError("Revision", c[2])
        ELSE IF Len(c) < 3 THEN ParseError("Missing", <<"<new> LF">>)
        ELSE IF ~HasLineFeed(c[3]) THEN ParseError("Newline", c[3])
        ELSE IF ParseRev(strip_suffix(c[3])).tag = "Err"
             THEN ParseError("Revision", strip_suffix(c[3]))
        ELSE IF Len(c) > 3 THEN ParseError("Extra", c[4])
        ELSE Ok(Data(ParseUrn(c[1]).value, ParseRev(c[2]).value,
                     ParseRev(strip_suffix(c[3])).value))

\* the urns of generated Data values and the components of input texts
DataUrns == {LOLEK_URN, BOLEK_URN}
InputComponents ==
    { <<>>, <<"\n">>, <<"x">>, <<"x", "\n">>, UrnText(LOLEK_URN) }
        \cup { RevText(r) : r \in {ZERO, 1} }
        \cup { RevText(r) \o <<"\n">> : r \in {ZERO, 1} }

RECURSIVE join(_)
join(cs) ==
    IF Len(cs) = 1 THEN cs[1] ELSE cs[1] \o <<" ">> \o join(Tail(cs))

(***************************************************************************)
(* The state machine: a caller (DefaultFetcher::fetch) holds a urn and a   *)
(* contacted peer, is handed a Fetchspecs value, asks it for the refspecs  *)
(* and drops it.                                                           *)
(***************************************************************************)
Init ==
    /\ fetchspecs = NoFetchspecs
    /\ urn = PROJECT_URN
    /\ remote_peer = "tola"
    /\ result = <<>>
    /\ pc = "new"
    /\ connected = FALSE
    /\ advertised = <<>>
    /\ fetch_arg = NoFetchspecs
    /\ listed_heads = <<>>
    /\ download_arg = <<>>
    /\ calls = <<>>
    /\ ret = NoReturn
    /\ fetch_pc = "idle"
    /\ data = NoData
    /\ outcome = None
    /\ text = <<>>
    /\ parsed = NoParse
    /\ hook_pc = "idle"

Build(fs, u, p) ==
    /\ fetchspecs' = fs
    /\ urn' = u
    /\ remote_peer' = p
    /\ pc' = "built"
    /\ UNCHANGED <<result, fetcherVars, hookVars>>

BuildPeek ==
    /\ pc = "new"
    /\ \E u \in Urns, p \in Peers : Build(Peek, u, p)

BuildSignedRefs ==
    /\ pc = "new"
    /\ \E tracked \in SUBSET Peers, u \in Urns, p \in Peers :
        Build(SignedRefs(tracked), u, p)

BuildReplicate ==
    /\ pc = "new"
    /\ \E rh \in RemoteHeadsChoices, ts \in SigrefsChoices, ds \in SUBSET Urns,
          u \in CallUrns, p \in Peers :
        /\ ReplicateChoice(rh, ds)
        /\ Build(Replicate(rh, ts, ds), u, p)

BuildFixture ==
    /\ pc = "new"
    /\ Build(Replicate(FixtureRemoteHeads, FixtureSigrefs, FixtureDelegates),
             PROJECT_URN, "tola")

\* fetchspecs.refspecs(&self.urn, self.remote_peer)
Refspecs ==
    /\ pc \in {"built", "planned"}
    /\ result' = refspecs(fetchspecs, urn, remote_peer)
    /\ pc' = "planned"
    /\ UNCHANGED <<fetchspecs, urn, remote_peer, fetcherVars, hookVars>>

Drop ==
    /\ pc = "planned"
    /\ fetchspecs' = NoFetchspecs
    /\ urn' = PROJECT_URN
    /\ remote_peer' = "tola"
    /\ result' = <<>>
    /\ pc' = "new"
    /\ UNCHANGED <<fetcherVars, hookVars>>

Next ==
    \/ BuildPeek
    \/ BuildSignedRefs
    \/ BuildReplicate
    \/ BuildFixture
    \/ Refspecs
    \/ Drop

Spec == Init /\ [][Next]_vars

(***************************************************************************)
(* DefaultFetcher::fetch, one action per call on self.remote.  Every call  *)
(* on the transport either succeeds or fails; a failure returns the error  *)
(* from fetch (the ? operator).                                            *)
(***************************************************************************)
FetchCall ==
    /\ fetch_pc = "idle"
    /\ \E adv \in AdvertisedChoices, fs \in FetchArgs :
        /\ advertised' = adv
        /\ fetch_arg' = fs
    /\ listed_heads' = <<>>
    /\ download_arg' = <<>>
    /\ calls' = <<>>
    /\ ret' = NoReturn
    /\ fetch_pc' = "connect"
    /\ UNCHANGED <<connected, planVars, hookVars>>

\* if !self.remote.connected() { self.remote.connect(Fetch)?; }
Connect ==
    /\ fetch_pc = "connect"
    /\ IF connected
       THEN /\ fetch_pc' = "list"
            /\ UNCHANGED <<connected, calls, ret>>
       ELSE /\ calls' = Append(calls, "connect")
            /\ \E ok \in BOOLEAN :
                IF ok
                THEN /\ connected' = TRUE
                     /\ fetch_pc' = "list"
                     /\ UNCHANGED ret
                ELSE /\ connected' = FALSE
                     /\ ret' = Err("connect")
                     /\ fetch_pc' = "returned"
    /\ UNCHANGED <<advertised, fetch_arg, listed_heads, download_arg,
                   planVars, hookVars>>

\* let listed_heads = self.remote.list()?.iter().filter_map(..).collect();
List ==
    /\ fetch_pc = "list"
    /\ calls' = Append(calls, "list")
    /\ \E ok \in BOOLEAN :
        IF ok
        THEN /\ listed_heads' = collect_remote_heads(advertised)
             /\ fetch_pc' = "download"
             /\ UNCHANGED <<connected, ret>>
        ELSE /\ ret' = Err("list")
             /\ fetch_pc' = "returned"
             /\ connected' \in BOOLEAN
             /\ UNCHANGED listed_heads
    /\ UNCHANGED <<advertised, fetch_arg, download_arg, planVars, hookVars>>

\* let refspecs = fetchspecs.refspecs(..); self.remote.download(..)?;
Download ==
    /\ fetch_pc = "download"
    /\ calls' = Append(calls, "download")
    /\ download_arg' = download_refspecs(fetch_arg, FetcherUrn, FetcherPeer)
    /\ \E ok \in BOOLEAN :
        IF ok
        THEN /\ fetch_pc' = "update_tips"
             /\ UNCHANGED <<connected, ret>>
        ELSE /\ ret' = Err("download")
             /\ fetch_pc' = "returned"
             /\ connected' \in BOOLEAN
    /\ UNCHANGED <<advertised, fetch_arg, listed_heads, planVars, hookVars>>

\* self.remote.update_tips(..)?; Ok(FetchResult { listed_heads, updated_tips })
UpdateTips ==
    /\ fetch_pc = "update_tips"
    /\ calls' = Append(calls, "update_tips")
    /\ \E ok \in BOOLEAN :
        IF ok
        THEN /\ \E upd \in UpdatedChoices :
                  ret' = Ok(FetchResult(listed_heads, collect_updated_tips(upd)))
             /\ UNCHANGED connected
        ELSE /\ ret' = Err("update_tips")
             /\ connected' \in BOOLEAN
    /\ fetch_pc' = "returned"
    /\ UNCHANGED <<advertised, fetch_arg, listed_heads, download_arg,
                   planVars, hookVars>>

\* the caller takes the result; the fetcher and its remote stay
FetchReturn ==
    /\ fetch_pc = "returned"
    /\ advertised' = <<>>
    /\ fetch_arg' = NoFetchspecs
    /\ listed_heads' = <<>>
    /\ download_arg' = <<>>
    /\ calls' = <<>>
    /\ ret' = NoReturn
    /\ fetch_pc' = "idle"
    /\ UNCHANGED <<connected, planVars, hookVars>>

NextFetch ==
    \/ FetchCall
    \/ Connect
    \/ List
    \/ Download
    \/ UpdateTips
    \/ FetchReturn

SpecFetch == Init /\ [][NextFetch]_vars

(***************************************************************************)
(* link-hooks: a Data value is made or a text is read; the value is        *)
(* classified and rendered, a text is parsed.                              *)
(***************************************************************************)
NewData ==
    /\ hook_pc = "idle"
    /\ \E u \in DataUrns, old \in Revisions, new \in Revisions :
        data' = Data(u, old, new)
    /\ hook_pc' = "data"
    /\ UNCHANGED <<outcome, text, parsed, planVars, fetcherVars>>

ReadInput ==
    /\ hook_pc = "idle"
    /\ \E n \in 1..MaxComponents :
        \E cs \in [1..n -> InputComponents] : text' = join(cs)
    /\ hook_pc' = "text"
    /\ UNCHANGED <<data, outcome, parsed, planVars, fetcherVars>>

\* data.updated()
CallUpdated ==
    /\ hook_pc = "data"
    /\ outcome' = updated(data)
    /\ UNCHANGED <<data, text, parsed, hook_pc, planVars, fetcherVars>>

\* data.to_string()
CallDisplay ==
    /\ hook_pc = "data"
    /\ text' = fmt(data)
    /\ hook_pc' = "text"
    /\ UNCHANGED <<data, outcome, parsed, planVars, fetcherVars>>

\* text.parse::<Data<R>>()
CallFromStr ==
    /\ hook_pc = "text"
    /\ parsed' = from_str(text)
    /\ hook_pc' = "parsed"
    /\ UNCHANGED <<data, outcome, text, planVars, fetcherVars>>

DropData ==
    /\ hook_pc = "parsed"
    /\ data' = NoData
    /\ outcome' = None
    /\ text' = <<>>
    /\ parsed' = NoParse
    /\ hook_pc' = "idle"
    /\ UNCHANGED <<planVars, fetcherVars>>

NextHooks ==
    \/ NewData
    \/ ReadInput
    \/ CallUpdated
    \/ CallDisplay
    \/ CallFromStr
    \/ DropData

SpecHooks == Init /\ [][NextHooks]_vars

(***************************************************************************)
(* Properties.  Paths are spelled out segment by segment, as the tests do. *)
(***************************************************************************)
Planned == pc = "planned"
IsPeek == fetchspecs.tag = "Peek"
IsSignedRefs == fetchspecs.tag = "SignedRefs"
IsReplicate == fetchspecs.tag = "Replicate"

Rendered == [i \in 1..Len(result) |-> as_refspec(result[i])]
Indices == 1..Len(result)

\* refs/namespaces/<u>/refs
NsRefs(u) == <<"refs", "namespaces", UrnSegment(u), "refs">>
OwnedPath(u, rest) == NsRefs(u) \o rest
TrackingPath(u, p, rest) == NsRefs(u) \o <<"remotes", p>> \o rest

\* position of a peer in the ascending order of peers
PeerRank(p) == CHOOSE i \in 1..Len(PeerOrder) : PeerOrder[i] = p

\* the j-th smallest element of a set of numbers
Nth(S, j) == CHOOSE x \in S : Cardinality({y \in S : y < x}) = j - 1

LocalPath(i) == RenderReference(result[i].local)
RemotePath(i) == RenderReference(result[i].remote)

\* the path where the contacted peer is expected to advertise t's branch b
ExpectedAdvertised(t, b) ==
    IF t = remote_peer
    THEN OwnedPath(urn, <<"heads", b>>)
    ELSE TrackingPath(urn, t, <<"refs", "heads", b>>)

Tracked == DOMAIN fetchspecs.tracked_sigrefs
SignedBranches(t) == DOMAIN fetchspecs.tracked_sigrefs[t].heads
SignedOid(t, b) == fetchspecs.tracked_sigrefs[t].heads[b]

GatePasses(t, b) ==
    /\ ExpectedAdvertised(t, b) \in DOMAIN fetchspecs.remote_heads
    /\ fetchspecs.remote_heads[ExpectedAdvertised(t, b)] = SignedOid(t, b)

\* the refspecs of the result that move branch b into t's tracking section
HeadSpecsFor(t, b) ==
    { i \in Indices : LocalPath(i) = TrackingPath(urn, t, <<"heads", b>>) }

IsHeadSpec(i) == \E t \in Peers, b \in Branches : i \in HeadSpecsFor(t, b)

\* C1: Replicate emits a head refspec for a tracked peer's signed branch if
\* and only if the listing holds the expected advertised path with the signed
\* oid, then exactly one, and none for a (peer, branch) that is not signed.
C1_TrustGate ==
    (Planned /\ IsReplicate) =>
        /\ \A t \in Tracked : \A b \in SignedBranches(t) :
              Cardinality(HeadSpecsFor(t, b)) = IF GatePasses(t, b) THEN 1 ELSE 0
        /\ \A t \in Peers, b \in Branches :
              HeadSpecsFor(t, b) # {} => t \in Tracked /\ b \in SignedBranches(t)

C1_Witness ==
    /\ Planned /\ IsReplicate
    /\ \E t \in Tracked : \E b \in SignedBranches(t) :
          /\ t # remote_peer
          /\ GatePasses(t, b)
          /\ Cardinality(HeadSpecsFor(t, b)) = 1

\* C2: every head refspec of Replicate is forced, stores into the branch
\* head scoped to the tracked peer, and fetches the unscoped head exactly
\* when the tracked peer is the contacted peer, the scoped one otherwise.
C2_HeadRefspecShape ==
    (Planned /\ IsReplicate) =>
        \A t \in Peers, b \in Branches : \A i \in HeadSpecsFor(t, b) :
            /\ result[i].force = TRUE
            /\ result[i].local = head(Namespace(urn), t, b)
            /\ (result[i].remote.remote = None) <=> (t = remote_peer)
            /\ t # remote_peer => result[i].remote = result[i].local
            /\ t = remote_peer => RemotePath(i) = OwnedPath(urn, <<"heads", b>>)

C2_Witness ==
    /\ Planned /\ IsReplicate
    /\ \E b \in Branches : \E i \in HeadSpecsFor(remote_peer, b) :
          RemotePath(i) = OwnedPath(urn, <<"heads", b>>)

\* the three refspecs of a peek at urn u of peer x, as rendered text
ExpectedPeek(u, x) ==
    << OwnedPath(u, <<"rad", "id">>) \o <<":">>
           \o TrackingPath(u, x, <<"rad", "id">>),
       OwnedPath(u, <<"rad", "self">>) \o <<":">>
           \o TrackingPath(u, x, <<"rad", "self">>),
       OwnedPath(u, <<"rad", "ids", "*">>) \o <<":">>
           \o TrackingPath(u, x, <<"rad", "ids", "*">>) >>

\* C3: Peek returns exactly the identity-root, self-profile and delegate-ids
\* glob refspecs, in this order, non-forced, local side scoped to the
\* contacted peer and remote side unscoped, whatever else the caller holds.
C3_PeekShape ==
    (Planned /\ IsPeek) =>
        /\ Len(result) = 3
        /\ \A i \in Indices : Rendered[i] = ExpectedPeek(urn, remote_peer)[i]
        /\ \A i \in Indices :
              /\ result[i].force = FALSE
              /\ result[i].local.remote = remote_peer
              /\ result[i].remote.remote = None

C3_Witness ==
    /\ Planned /\ IsPeek
    /\ urn = LOLEK_URN /\ remote_peer = "bolek"
    /\ Len(result) = 3

\* C4: SignedRefs returns one non-forced refspec per tracked peer, in
\* ascending order of the peers, local side the signed refs scoped to the
\* tracked peer, remote side unscoped for the contacted peer and equal to
\* the local side for every other peer.
C4_SignedRefsShape ==
    (Planned /\ IsSignedRefs) =>
        /\ Len(result) = Cardinality(fetchspecs.tracked)
        /\ {result[i].local.remote : i \in Indices} = fetchspecs.tracked
        /\ \A i, j \in Indices :
              i < j => PeerRank(result[i].local.remote) < PeerRank(result[j].local.remote)
        /\ \A i \in Indices :
              LET t == result[i].local.remote
              IN  /\ result[i].force = FALSE
                  /\ result[i].local = rad_signed_refs(Namespace(urn), t)
                  /\ (result[i].remote.remote = None) <=> (t = remote_peer)
                  /\ t # remote_peer => result[i].remote = result[i].local
                  /\ t = remote_peer =>
                        RemotePath(i) = OwnedPath(urn, <<"rad", "signed_refs">>)

C4_Witness ==
    /\ Planned /\ IsSignedRefs
    /\ remote_peer \in fetchspecs.tracked
    /\ Cardinality(fetchspecs.tracked) = 2
    /\ Len(result) = 2

\* the signed-refs refspec of tracked peer t for urn u fetched from peer x
ExpectedSignedRefs(u, x, t) ==
    (IF t = x
     THEN OwnedPath(u, <<"rad", "signed_refs">>)
     ELSE TrackingPath(u, t, <<"rad", "signed_refs">>))
        \o <<":">>
        \o TrackingPath(u, t, <<"rad", "signed_refs">>)

\* C5: for every delegate the Replicate result holds the three refspecs of a
\* peek at the delegate and the signed-refs refspec of every tracked peer,
\* whatever the listing and the signed heads are, and no refspec is planned
\* for a urn other than the project and the delegates.
C5_DelegateExpansion ==
    (Planned /\ IsReplicate) =>
        /\ \A d \in fetchspecs.delegates :
              /\ \A k \in 1..3 : \E i \in Indices :
                    Rendered[i] = ExpectedPeek(d, remote_peer)[k]
              /\ \A t \in Tracked : \E i \in Indices :
                    Rendered[i] = ExpectedSignedRefs(d, remote_peer, t)
        /\ \A i \in Indices :
              /\ result[i].local.namespace \in {urn} \cup fetchspecs.delegates
              /\ result[i].remote.namespace = result[i].local.namespace

C5_Witness ==
    /\ Planned /\ IsReplicate
    /\ \E d \in fetchspecs.delegates : \E t \in Tracked :
          /\ d # urn
          /\ SignedBranches(t) = {}
          /\ \E i \in Indices : Rendered[i] = ExpectedSignedRefs(d, remote_peer, t)

\* the signed branches that pass the trust gate
Passing == { q \in Peers \X Branches :
                /\ q[1] \in Tracked
                /\ q[2] \in SignedBranches(q[1])
                /\ GatePasses(q[1], q[2]) }

\* the m-th tracked peer in ascending order
NthPeer(T, m) ==
    CHOOSE p \in T : Cardinality({q \in T : PeerRank(q) < PeerRank(p)}) = m - 1

IsFixture ==
    /\ fetchspecs = Replicate(FixtureRemoteHeads, FixtureSigrefs, FixtureDelegates)
    /\ urn = PROJECT_URN
    /\ remote_peer = "tola"

\* C6: the Replicate result is the gated head refspecs, then the peek at the
\* project, then for each delegate in ascending order its peek followed by
\* its signed-refs refspecs, and nothing else; 16 refspecs for the fixture.
C6_Concatenation ==
    (Planned /\ IsReplicate) =>
        LET k   == Cardinality(Passing)
            nT  == Cardinality(Tracked)
            nD  == Cardinality(fetchspecs.delegates)
            blk == 3 + nT
        IN  /\ Len(result) = k + 3 + nD * blk
            /\ \A i \in 1..k : IsHeadSpec(i)
            /\ \A j \in 1..3 : Rendered[k + j] = ExpectedPeek(urn, remote_peer)[j]
            /\ \A n \in 1..nD :
                  LET d    == Nth(fetchspecs.delegates, n)
                      base == k + 3 + (n - 1) * blk
                  IN  /\ \A j \in 1..3 :
                            Rendered[base + j] = ExpectedPeek(d, remote_peer)[j]
                      /\ \A m \in 1..nT :
                            Rendered[base + 3 + m] =
                                ExpectedSignedRefs(d, remote_peer, NthPeer(Tracked, m))
            /\ IsFixture => Len(result) = 16

C6_Witness ==
    /\ Planned /\ IsFixture
    /\ Cardinality(Passing) = 3
    /\ Len(result) = 16

\* a signed branch whose expected path is advertised with another oid
Diverged(t, b) ==
    /\ ExpectedAdvertised(t, b) \in DOMAIN fetchspecs.remote_heads
    /\ fetchspecs.remote_heads[ExpectedAdvertised(t, b)] # SignedOid(t, b)

\* the result is complete: every passing head, the project's peek and the
\* whole expansion of every delegate
Complete ==
    /\ \A q \in Passing : HeadSpecsFor(q[1], q[2]) # {}
    /\ \A k \in 1..3 : \E i \in Indices :
          Rendered[i] = ExpectedPeek(urn, remote_peer)[k]
    /\ \A d \in fetchspecs.delegates :
          /\ \A k \in 1..3 : \E i \in Indices :
                Rendered[i] = ExpectedPeek(d, remote_peer)[k]
          /\ \A t \in Tracked : \E i \in Indices :
                Rendered[i] = ExpectedSignedRefs(d, remote_peer, t)

IsSignedRefsSpec(i) == result[i].local.name = <<"signed_refs">>

\* C9 as claimed: scoped signed refs render as
\* refs/namespaces/<ns>/refs/remotes/<p>/refs/rad/signed_refs, unscoped as
\* refs/namespaces/<ns>/refs/rad/signed_refs; scoped heads render as
\* refs/namespaces/<ns>/refs/remotes/<p>/refs/heads/<b>, unscoped as
\* refs/namespaces/<ns>/refs/heads/<b>.
C9_AsClaimed ==
    (Planned /\ (IsSignedRefs \/ IsReplicate)) =>
        \A i \in Indices :
            LET ns == result[i].local.namespace
                p  == result[i].local.remote
                stripped == RenderReference(set_remote(result[i].local, None))
            IN  /\ IsSignedRefsSpec(i) =>
                      /\ LocalPath(i) =
                            TrackingPath(ns, p, <<"refs", "rad", "signed_refs">>)
                      /\ stripped = OwnedPath(ns, <<"rad", "signed_refs">>)
                /\ result[i].local.category = "heads" =>
                      /\ LocalPath(i) =
                            TrackingPath(ns, p, <<"refs", "heads">> \o result[i].local.name)
                      /\ stripped = OwnedPath(ns, <<"heads">> \o result[i].local.name)

\* C9 (amended): scoped signed refs render as
\* refs/namespaces/<ns>/refs/remotes/<p>/rad/signed_refs, unscoped as
\* refs/namespaces/<ns>/refs/rad/signed_refs; scoped heads render as
\* refs/namespaces/<ns>/refs/remotes/<p>/heads/<b>, unscoped as
\* refs/namespaces/<ns>/refs/heads/<b>; these are the sides of the refspecs.
C9_RenderedPaths ==
    (Planned /\ (IsSignedRefs \/ IsReplicate)) =>
        \A i \in Indices :
            LET ns == result[i].local.namespace
                p  == result[i].local.remote
                stripped == RenderReference(set_remote(result[i].local, None))
            IN  /\ IsSignedRefsSpec(i) =>
                      /\ LocalPath(i) = TrackingPath(ns, p, <<"rad", "signed_refs">>)
                      /\ stripped = OwnedPath(ns, <<"rad", "signed_refs">>)
                      /\ RemotePath(i) = IF p = remote_peer THEN stripped ELSE LocalPath(i)
                /\ result[i].local.category = "heads" =>
                      /\ LocalPath(i) =
                            TrackingPath(ns, p, <<"heads">> \o result[i].local.name)
                      /\ stripped = OwnedPath(ns, <<"heads">> \o result[i].local.name)
                      /\ RemotePath(i) = IF p = remote_peer THEN stripped ELSE LocalPath(i)

C9_Witness ==
    /\ Planned /\ IsReplicate
    /\ \E i, j \in Indices :
          /\ IsSignedRefsSpec(i)
          /\ result[i].local.remote = remote_peer
          /\ result[j].local.category = "heads"

HasWildcard(path) == \E n \in 1..Len(path) : path[n] = "*"

\* C10: a refspec has a wildcard on both sides or on neither, only the
\* delegate-ids globs have one, and it renders as <remote>:<local> with a
\* leading + exactly when forced; in Replicate the forced refspecs are the
\* head refspecs, and no Peek or SignedRefs refspec is forced.
C10_WildcardAndForce ==
    Planned =>
        \A i \in Indices :
            /\ HasWildcard(LocalPath(i)) <=> HasWildcard(RemotePath(i))
            /\ HasWildcard(LocalPath(i)) <=> result[i].local.name = <<"ids", "*">>
            /\ (Head(Rendered[i]) = "+") <=> result[i].force
            /\ Rendered[i] =
                  (IF result[i].force THEN <<"+">> ELSE <<>>)
                      \o RemotePath(i) \o <<":">> \o LocalPath(i)
            /\ IsReplicate => (result[i].force <=> IsHeadSpec(i))
            /\ (IsPeek \/ IsSignedRefs) => ~ result[i].force
            /\ result[i].local.category = "rad" => ~ result[i].force

C10_Witness ==
    /\ Planned /\ IsReplicate
    /\ \E i, j \in Indices :
          /\ result[i].force /\ Head(Rendered[i]) = "+"
          /\ HasWildcard(LocalPath(j)) /\ HasWildcard(RemotePath(j))

\* C13: the path the trust gate checks is the path that is fetched: the
\* remote side of every head refspec of Replicate is a key of the listing
\* and the oid listed there is the oid the tracked peer signed.
C13_CheckedIsFetched ==
    (Planned /\ IsReplicate) =>
        \A t \in Tracked : \A b \in SignedBranches(t) : \A i \in HeadSpecsFor(t, b) :
            /\ RemotePath(i) \in DOMAIN fetchspecs.remote_heads
            /\ fetchspecs.remote_heads[RemotePath(i)] = SignedOid(t, b)

IsPrefix(a, b) == Len(a) <= Len(b) /\ SubSeq(b, 1, Len(a)) = a

\* the urns a plan is made for, and the peers whose tracking section a
\* refspec of a category may store into
PlannedUrns ==
    IF IsReplicate THEN {urn} \cup fetchspecs.delegates ELSE {urn}

TrackedPeers ==
    CASE IsReplicate -> Tracked
      [] IsSignedRefs -> fetchspecs.tracked
      [] OTHER -> {}

SectionPeers(i) ==
    IF result[i].local.name \in {<<"id">>, <<"self">>, <<"ids", "*">>}
    THEN {remote_peer}
    ELSE TrackedPeers

\* C14: both sides of every planned refspec lie under refs/namespaces/<u>
\* of the urn u it is planned for, and its local side lies under
\* refs/remotes/<p> of that namespace, p the contacted peer for the peek
\* refspecs and a tracked peer for the signed-refs and head refspecs.
C14_RemoteTrackingOnly ==
    Planned =>
        \A i \in Indices :
            \E u \in PlannedUrns, p \in SectionPeers(i) :
                /\ IsPrefix(NsRefs(u) \o <<"remotes", p>>, LocalPath(i))
                /\ IsPrefix(NsRefs(u), RemotePath(i))
                /\ \A v \in Urns : IsPrefix(NsRefs(v), LocalPath(i)) => v = u
                /\ result[i].local.remote # None
                /\ result[i].local.category = "heads" => u = urn

C14_Witness ==
    /\ Planned /\ IsReplicate
    /\ fetchspecs.delegates # {}
    /\ \E t \in Tracked : \E b \in SignedBranches(t) :
          /\ t = remote_peer
          /\ HeadSpecsFor(t, b) # {}

\* C15: no two refspecs of a Peek, a SignedRefs or, when the project is not
\* one of the delegates, a Replicate result have the same local side.
C15_DistinctLocalSides ==
    (Planned /\ (IsReplicate => urn \notin fetchspecs.delegates)) =>
        \A i, j \in Indices : i # j => LocalPath(i) # LocalPath(j)

C15_Witness ==
    /\ Planned /\ IsReplicate
    /\ urn \notin fetchspecs.delegates
    /\ Cardinality(fetchspecs.delegates) = 2
    /\ Cardinality(Tracked) = 2
    /\ Len(result) > 10

(***************************************************************************)
(* DefaultFetcher::fetch.                                                  *)
(***************************************************************************)
CallOrder == <<"connect", "list", "download", "update_tips">>
Returned == fetch_pc = "returned"

\* the calls made so far are the first calls of the order, connect left out
\* or not
InOrder(cs) ==
    \/ cs = SubSeq(CallOrder, 1, Len(cs))
    \/ cs = SubSeq(Tail(CallOrder), 1, Len(cs))

\* the advertised refs that are neither symbolic nor malformed
ValidDirect == {n \in DOMAIN advertised : ~advertised[n].symref /\ IsRefLike(n)}
Malformed == {n \in DOMAIN advertised : ~IsRefLike(n)}

\* C11: a malformed advertised name is left out of the listing and the
\* fetch goes on; a failed connect, list, download or update_tips is the
\* last call of the fetch and the fetch returns an error and no FetchResult;
\* a FetchResult is returned only after connect (made exactly when the
\* remote was not connected), list, download and update_tips succeeded in
\* that order, and its remote_heads are exactly the validly named,
\* non-symbolic advertised refs with their oids.
C11_FetchErrors ==
    /\ [][(fetch_pc = "connect" /\ fetch_pc' # "connect")
            => (connected <=> calls' = calls)]_vars
    /\ [](/\ InOrder(calls)
          /\ Returned <=> ret # NoReturn
          /\ ret.tag = "Err" =>
                /\ calls # <<>>
                /\ calls[Len(calls)] = ret.step
                /\ "value" \notin DOMAIN ret
          /\ ret.tag = "Ok" =>
                /\ calls \in {CallOrder, Tail(CallOrder)}
                /\ connected
                /\ DOMAIN ret.value.remote_heads = ValidDirect
                /\ \A n \in ValidDirect :
                      ret.value.remote_heads[n] = advertised[n].oid
                /\ \A n \in DOMAIN ret.value.updated_tips : IsRefLike(n))

C11_Witness ==
    /\ ret.tag = "Ok"
    /\ calls = CallOrder
    /\ \E n \in Malformed : ~advertised[n].symref
    /\ \E n \in DOMAIN advertised : advertised[n].symref /\ IsRefLike(n)
    /\ ValidDirect # {}

(***************************************************************************)
(* link-hooks Data.                                                        *)
(***************************************************************************)
Outcomes == {"Zero", "Created", "Deleted", "Changed", "NoChange"}

\* C16: updated() gives Zero when both revisions are zero, Created when
\* only old is zero, Deleted when only new is zero, Changed when both are
\* non-zero and differ, NoChange when both are non-zero and equal, and the
\* call leaves the Data value as it was.
C16_UpdatedOutcome ==
    /\ [][(hook_pc' = "data" /\ outcome' # outcome) => data' = data]_vars
    /\ [](outcome # None =>
            /\ data # NoData
            /\ outcome \in Outcomes
            /\ outcome = "Zero" <=> (data.old = ZERO /\ data.new = ZERO)
            /\ outcome = "Created" <=> (data.old = ZERO /\ data.new # ZERO)
            /\ outcome = "Deleted" <=> (data.old # ZERO /\ data.new = ZERO)
            /\ outcome = "Changed" <=>
                  (data.old # ZERO /\ data.new # ZERO /\ data.old # data.new)
            /\ outcome = "NoChange" <=>
                  (data.old # ZERO /\ data.new # ZERO /\ data.old = data.new))

C16_Witness ==
    /\ hook_pc = "data"
    /\ outcome = "NoChange"
    /\ data.old = data.new
    /\ data.old # ZERO

\* the number of space-separated components of the text, and the third
Components == Cardinality({i \in 1..Len(text) : text[i] = " "}) + 1
Third == split(text)[3]
UrnParses == ParseUrn(split(text)[1]).tag = "Ok"
OldParses == Components >= 2 /\ ParseRev(split(text)[2]).tag = "Ok"
NewParses ==
    /\ Components >= 3
    /\ HasLineFeed(Third)
    /\ ParseRev(strip_suffix(Third)).tag = "Ok"
ParseFailed == parsed.tag = "Err" /\ "value" \notin DOMAIN parsed

\* C17: the text of a Data value is "<urn> <old> <new>" and a line feed and
\* parses back to an equal value; a text without the <old> or the <new>
\* component, with a third component that does not end in a line feed, or
\* with a fourth component fails to parse and gives no value, and the error
\* is Missing, Newline or Extra respectively when the components before the
\* faulty one are well-formed.
C17_TextRoundTrip ==
    hook_pc = "parsed" =>
        /\ data # NoData =>
              /\ Components = 3
              /\ HasLineFeed(text)
              /\ parsed = Ok(data)
        /\ Components < 3 => ParseFailed
        /\ (Components >= 3 /\ ~HasLineFeed(Third)) => ParseFailed
        /\ Components > 3 => ParseFailed
        /\ (Components = 1 /\ UrnParses) => parsed.variant = "Missing"
        /\ (Components = 2 /\ UrnParses /\ OldParses) =>
              parsed.variant = "Missing"
        /\ (Components >= 3 /\ UrnParses /\ OldParses /\ ~HasLineFeed(Third)) =>
              parsed.variant = "Newline"
        /\ (Components > 3 /\ UrnParses /\ OldParses /\ NewParses) =>
              parsed.variant = "Extra"

C17_Witness ==
    /\ hook_pc = "parsed"
    /\ data # NoData
    /\ data.old # data.new
    /\ parsed = Ok(data)

====
